---- MODULE Spec2Model ----
(***************************************************************************)
(* Model of the lead qualification engine of src/main.py: the bill         *)
(* normalizer, the text mappings and apply_scoring.                        *)
(*                                                                         *)
(* Representation.                                                         *)
(*  - Optional[T]: the empty tuple <<>> is None, <<v>> is the value v.     *)
(*  - str: a sequence of lexemes (TLA+ strings).  A keyword the code looks *)
(*    for is a sequence of lower-case lexemes; `kw in s` is "kw is a       *)
(*    contiguous subsequence of s", s.startswith(kw) is "kw is a prefix".  *)
(*    monthly_bill_raw is a sequence of single characters.                 *)
(*  - float: the bill is a multiple of 0.5 in every case the model draws   *)
(*    (integers and means of two integers); it is stored as the integer    *)
(*    number of half dollars, so x < 150 reads x < Dollars(150).           *)
(*  - the weighted total is kept times 100 (0.40 -> 40, 0.35 -> 35, ...).  *)
(***************************************************************************)
EXTENDS Integers, Sequences, FiniteSets, TLC

VARIABLES lead, input, result, prev, calls, raised

vars == <<lead, input, result, prev, calls, raised>>

\* ---------------------------------------------------------------- bounds

\* apply_scoring is called at most MaxCalls times on one record object.
MaxCalls == 2
\* monthly_bill_raw has at most MaxRawLen characters.
MaxRawLen == 5
\* a free-text field has at most MaxWords lexemes.
MaxWords == 3
\* numeric fields are drawn within Spread of each threshold of the rules.
Spread == 1

\* ------------------------------------------------------ optional and text

None == <<>>

Some(v) == <<v>>

\* Python truthiness of an Optional[str]: None and "" are falsy.
TruthyStr(o) == o # None /\ o[1] # <<>>

\* Python truthiness of an Optional[int]: None and 0 are falsy.
TruthyInt(o) == o # None /\ o[1] # 0

\* Python truthiness of an Optional[bool].
TruthyBool(o) == o # None /\ o[1]

\* str.lower() on one lexeme.
UpperLexemes ==
    [ Wood |-> "wood", Asphalt |-> "asphalt", Tile |-> "tile",
      Full |-> "full", Heavy |-> "heavy", Mostly |-> "mostly",
      No |-> "no", HOA |-> "hoa", Restriction |-> "restriction",
      Allow |-> "allow", Under |-> "under", Unknown |-> "unknown",
      Other |-> "other", Research |-> "research", Price |-> "price",
      Trust |-> "trust", Saving |-> "saving", Backup |-> "backup" ]

LowerLexeme(w) == IF w \in DOMAIN UpperLexemes THEN UpperLexemes[w] ELSE w

\* str.lower()
Lower(s) == [i \in 1..Len(s) |-> LowerLexeme(s[i])]

\* kw in s
Contains(s, kw) ==
    \E i \in 0..(Len(s) - Len(kw)) : SubSeq(s, i + 1, i + Len(kw)) = kw

\* s.startswith(kw)
StartsWith(s, kw) == Len(s) >= Len(kw) /\ SubSeq(s, 1, Len(kw)) = kw

\* s.replace(c, "") for a one-character c
Remove(s, c) == LET Keep(x) == x # c IN SelectSeq(s, Keep)

\* s.replace(c, d) for one-character c and d
Replace(s, c, d) == [i \in 1..Len(s) |-> IF s[i] = c THEN d ELSE s[i]]

\* All sequences over S of length at most n.
RECURSIVE SeqsUpTo(_, _)
SeqsUpTo(S, n) ==
    IF n = 0 THEN { <<>> }
    ELSE LET shorter == SeqsUpTo(S, n - 1)
         IN  shorter \cup { Append(s, x) : s \in shorter, x \in S }

\* n dollars in the unit the bill is stored in (half dollars).
Dollars(n) == 2 * n

\* ------------------------------------------------------------------ float()

\* the value of a digit character (the model draws the digits 1 and 4)
Digit(c) == IF c = "1" THEN 1 ELSE 4

IsDigit(c) == c \in {"1", "4"}

RECURSIVE Decimal(_)
\* the value of a non-empty string of digits
Decimal(s) ==
    IF s = <<>> THEN 0
    ELSE 10 * Decimal(SubSeq(s, 1, Len(s) - 1)) + Digit(s[Len(s)])

AllDigits(s) == s # <<>> /\ \A i \in 1..Len(s) : IsDigit(s[i])

\* float(s) on the characters the model draws: an optional sign followed by
\* digits parses, anything else (the empty string included) is a ValueError,
\* returned as None.
ParseFloat(s) ==
    IF AllDigits(s) THEN Some(Dollars(Decimal(s)))
    ELSE IF s # <<>> /\ s[1] = "-" /\ AllDigits(Tail(s))
         THEN Some(0 - Dollars(Decimal(Tail(s))))
         ELSE None

RECURSIVE Split(_, _)
\* s.split(sep): the list of the pieces of s between the separators
Split(s, sep) ==
    IF \A i \in 1..Len(s) : s[i] # sep THEN << s >>
    ELSE LET k == CHOOSE i \in 1..Len(s) :
                     s[i] = sep /\ \A j \in 1..(i - 1) : s[j] # sep
         IN  << SubSeq(s, 1, k - 1) >> \o Split(SubSeq(s, k + 1, Len(s)), sep)

\* ----------------------------------------------------------- normalizer

\* raw.replace("$", "").replace(" ", "").replace(EN DASH, "-"); the en dash
\* character U+2013 is written "ndash".
CleanRaw(raw) == Replace(Remove(Remove(raw, "$"), " "), "ndash", "-")

\* The range branch with the sum of the two parts in place of their mean.
RangeParse_sum(raw) ==
    LET parts == Split(raw, "-")
        low   == ParseFloat(parts[1])
        high  == IF Len(parts) >= 2 THEN ParseFloat(parts[2]) ELSE None
    IN  IF low = None \/ high = None
        THEN [ok |-> FALSE, value |-> None, exc |-> "none"]
        ELSE [ok |-> TRUE, value |-> Some(low[1] + high[1]), exc |-> "none"]

\* The try block of the range branch: [ok, value]; ok is FALSE when float()
\* raised ValueError (caught by the except clause).  exc is "IndexError"
\* when parts[1] does not exist, which the except clause does not catch.
RangeParse(raw) ==
    LET parts == Split(raw, "-")
        low   == ParseFloat(parts[1])
        high  == IF Len(parts) >= 2 THEN ParseFloat(parts[2]) ELSE None
    IN  IF low = None THEN [ok |-> FALSE, value |-> None, exc |-> "none"]
        ELSE IF Len(parts) < 2
             THEN [ok |-> FALSE, value |-> None, exc |-> "IndexError"]
        ELSE IF high = None THEN [ok |-> FALSE, value |-> None, exc |-> "none"]
        ELSE [ok |-> TRUE, value |-> Some((low[1] + high[1]) \div 2),
              exc |-> "none"]

\* The single-value parse without its except clause: ValueError escapes.
SingleParse_uncaught(raw) ==
    [bill |-> ParseFloat(raw),
     exc  |-> IF ParseFloat(raw) = None THEN "ValueError" ELSE "none"]

\* The single-value try block: float(raw), ValueError swallowed.
SingleParse(raw) == [bill |-> ParseFloat(raw), exc |-> "none"]

\* normalize_monthly_bill without the early return of lines 98-99: a numeric
\* bill is overwritten by the estimate parsed from the raw string.
normalize_monthly_bill_overwrite(l) ==
    IF ~TruthyStr(l.monthly_bill_raw)
    THEN [bill |-> l.monthly_bill, exc |-> "none"]
    ELSE LET raw == CleanRaw(l.monthly_bill_raw[1])
             r   == RangeParse(raw)
         IN  IF Contains(raw, <<"-">>) /\ r.ok
             THEN [bill |-> r.value, exc |-> "none"]
             ELSE IF ParseFloat(raw) # None
                  THEN [bill |-> ParseFloat(raw), exc |-> "none"]
                  ELSE [bill |-> l.monthly_bill, exc |-> "none"]

\* normalize_monthly_bill without the early return, adding the parsed
\* estimate to the numeric bill already stored.
normalize_monthly_bill_accumulate(l) ==
    LET stored == IF l.monthly_bill = None THEN 0 ELSE l.monthly_bill[1]
        parsed == normalize_monthly_bill_overwrite(
                      [l EXCEPT !.monthly_bill = None]).bill
    IN  IF parsed = None THEN [bill |-> l.monthly_bill, exc |-> "none"]
        ELSE [bill |-> Some(stored + parsed[1]), exc |-> "none"]

\* normalize_monthly_bill: the value of lead.monthly_bill after the call and
\* the exception that escaped it ("none" when it returned).
normalize_monthly_bill(l) ==
    IF l.monthly_bill # None THEN [bill |-> l.monthly_bill, exc |-> "none"]
    ELSE IF ~TruthyStr(l.monthly_bill_raw)
         THEN [bill |-> l.monthly_bill, exc |-> "none"]
    ELSE LET raw == CleanRaw(l.monthly_bill_raw[1])
         IN  IF Contains(raw, <<"-">>)
             THEN LET r == RangeParse(raw)
                  IN  IF r.exc # "none" THEN [bill |-> None, exc |-> r.exc]
                      ELSE IF r.ok THEN [bill |-> r.value, exc |-> "none"]
                      ELSE SingleParse(raw)
             ELSE SingleParse(raw)

\* map_shading_to_code
map_shading_to_code(shading_level) ==
    IF ~TruthyStr(shading_level) THEN None
    ELSE LET s == Lower(shading_level[1])
         IN  IF Contains(s, <<"full">>) THEN Some("full_sun")
             ELSE IF Contains(s, <<"mostly">>) THEN Some("mostly_sunny")
             ELSE IF Contains(s, <<"partial">>) THEN Some("partial_shade")
             ELSE IF Contains(s, <<"heavy">>) THEN Some("heavy_shade")
             ELSE Some("unknown")

\* map_hoa_to_bool
map_hoa_to_bool(hoa) ==
    IF ~TruthyStr(hoa) THEN None
    ELSE LET s == Lower(hoa[1])
         IN  IF Contains(s, <<"no", " ", "hoa">>) THEN Some(TRUE)
             ELSE IF Contains(s, <<"allow">>) THEN Some(TRUE)
             ELSE IF Contains(s, <<"restriction">>) THEN Some(FALSE)
             ELSE None

\* map_credit_band (the result is a str: Some(..) in every case)
map_credit_band(credit_band) ==
    IF ~TruthyStr(credit_band) THEN Some(<<"Unknown">>) ELSE credit_band

\* map_true_up_band
map_true_up_band(true_up_band) ==
    IF ~TruthyStr(true_up_band) THEN Some(<<"Unknown">>) ELSE true_up_band

\* normalize_decision_style
normalize_decision_style(style) ==
    IF ~TruthyStr(style) THEN Some(<<"Unknown">>) ELSE style

\* normalize_motivation
normalize_motivation(m) ==
    IF ~TruthyStr(m) THEN Some(<<"Other", "/", "Unknown">>) ELSE m

\* ------------------------------------------------------------- scoring

\* reject_reasons.append(reason) under a condition
AppendIf(seq, cond, reason) == IF cond THEN Append(seq, reason) ELSE seq

\* No clamping.
Clamp_identity(x) == x

\* max(0, min(x, 100))
Clamp(x) == IF x > 100 THEN 100 ELSE IF x < 0 THEN 0 ELSE x

\* Line 191: the distance rule.
RejectDistance_inclusive(l) ==
    l.distance_minutes # None /\ l.distance_minutes[1] >= 90

RejectDistance(l) ==
    l.distance_minutes # None /\ l.distance_minutes[1] > 90

\* Lines 194-196: the wood shake rule.
RejectRoof(l) ==
    /\ TruthyStr(l.roof_type)
    /\ Contains(Lower(l.roof_type[1]), <<"wood">>)
    /\ Contains(Lower(l.roof_type[1]), <<"shake">>)

\* Line 199: the shading rule.
RejectShading(shading_code) == shading_code = Some("heavy_shade")

\* Line 202: the bill rule.
RejectBill(l) == l.monthly_bill # None /\ l.monthly_bill[1] < Dollars(150)

\* Line 205: the HOA rule (hoa_ok is False, not None).
RejectHoa(hoa_ok) == hoa_ok = Some(FALSE)

\* Line 208: the roof age rule.
RejectAge(l) == l.roof_age_years # None /\ l.roof_age_years[1] >= 15

\* Line 211: the credit rule; cb is the mapped credit band.
RejectCredit(cb) == StartsWith(Lower(cb), <<"under", " ", "650">>)

\* The hard disqualifications, lines 190-212, on the normalized lead l.
RejectReasons(l, shading_code, hoa_ok, cb) ==
    LET r1 == AppendIf(<<>>, RejectDistance(l), "Outside 90-minute radius")
        r2 == AppendIf(r1, RejectRoof(l), "Wood shake roof")
        r3 == AppendIf(r2, RejectShading(shading_code), "Excessive shading")
        r4 == AppendIf(r3, RejectBill(l), "Monthly bill under $150")
        r5 == AppendIf(r4, RejectHoa(hoa_ok), "HOA does not allow solar")
        r6 == AppendIf(r5, RejectAge(l),
                  "Roof likely needs replacement within 5 years")
        r7 == AppendIf(r6, RejectCredit(cb), "Credit score below 650")
    IN  r7

\* The result returned at lines 214-224.
HardReject(reject_reasons) ==
    [ property_score   |-> 20,
      financial_score  |-> 20,
      behavioral_score |-> 40,
      landlord_score   |-> 0,
      ai_tier          |-> "REJECT",
      buyer_type       |-> "Unknown",
      pain_points      |-> <<>>,
      reject_reasons   |-> reject_reasons ]

\* Lines 229-234: the points of the roof material.
MaterialPoints(l) ==
    IF ~TruthyStr(l.roof_type) THEN 0
    ELSE LET rt == Lower(l.roof_type[1])
         IN  IF Contains(rt, <<"asphalt">>) \/ Contains(rt, <<"composition">>)
             THEN 25
             ELSE IF \/ Contains(rt, <<"tile">>)
                     \/ Contains(rt, <<"metal">>)
                     \/ Contains(rt, <<"flat">>)
                  THEN 15
                  ELSE 0

\* The roof age points with the first bound exclusive.
AgePoints_strict(l) ==
    IF l.roof_age_years = None THEN 0
    ELSE IF l.roof_age_years[1] < 5 THEN 20
    ELSE IF l.roof_age_years[1] <= 10 THEN 10
    ELSE 0

\* Lines 236-240: the points of the roof age.
AgePoints(l) ==
    IF l.roof_age_years = None THEN 0
    ELSE IF l.roof_age_years[1] <= 5 THEN 20
    ELSE IF l.roof_age_years[1] <= 10 THEN 10
    ELSE 0

\* Lines 242-247: the points of the shading code.
ShadingPoints(shading_code) ==
    IF shading_code = Some("full_sun") THEN 15
    ELSE IF shading_code = Some("mostly_sunny") THEN 10
    ELSE 0

\* Property score, lines 226-249.
PropertyScore(l, shading_code) ==
    Clamp(50 + MaterialPoints(l) + AgePoints(l) + ShadingPoints(shading_code))

\* Lines 254-260: the points of the numeric bill.
BillPoints(l) ==
    IF l.monthly_bill = None THEN 0
    ELSE IF l.monthly_bill[1] >= Dollars(400) THEN 30
    ELSE IF l.monthly_bill[1] >= Dollars(200) THEN 20
    ELSE IF l.monthly_bill[1] >= Dollars(150) THEN 10
    ELSE 0

\* Lines 262-265: the points of the true-up band; tub is lower-cased.
TrueUpPoints(tub) ==
    IF Contains(tub, <<"500", "+">>) THEN 20
    ELSE IF Contains(tub, <<"under", " ", "500">>) THEN 10
    ELSE 0

\* Lines 267-270: the points of the credit band; the prefix test is on
\* cb.lower(), the two substring tests on cb as given.
CreditPoints(cb) ==
    IF StartsWith(Lower(cb), <<"720">>) THEN 20
    ELSE IF \/ Contains(cb, <<"650", "ndash", "719">>)
            \/ Contains(cb, <<"650", "-", "719">>)
         THEN 10
         ELSE 0

\* Financial score, lines 251-272.
FinancialScore(l, tub, cb) ==
    Clamp(40 + BillPoints(l) + TrueUpPoints(tub) + CreditPoints(cb))

\* Behavioral score and buyer type, lines 274-292 and 304; s is style.lower().
Behavioral(s) ==
    IF Contains(s, <<"research">>) \/ Contains(s, <<"quality">>)
    THEN [score |-> Clamp(50 + 25), buyer_type |-> "Quality Focused"]
    ELSE IF Contains(s, <<"trust">>) /\ Contains(s, <<"expert">>)
    THEN [score |-> Clamp(50 + 20), buyer_type |-> "Trusts Experts"]
    ELSE IF Contains(s, <<"price">>)
    THEN [score |-> Clamp(50 - 10), buyer_type |-> "Price Shopper"]
    ELSE IF Contains(s, <<"deal">>)
    THEN [score |-> Clamp(50 - 5), buyer_type |-> "Discount Seeker"]
    ELSE [score |-> Clamp(50), buyer_type |-> "Unknown"]

\* Pain points, lines 294-302; mot is the lower-cased motivation.
PainPoints(mot) ==
    LET p1 == AppendIf(<<>>, Contains(mot, <<"saving">>), "high_bills")
        p2 == AppendIf(p1, Contains(mot, <<"environment">>),
                  "environmental_impact")
        p3 == AppendIf(p2,
                  Contains(mot, <<"independence">>) \/ Contains(mot, <<"backup">>),
                  "grid_dependence")
        p4 == AppendIf(p3, Contains(mot, <<"quality">>), "quality_equipment")
    IN  p4

\* The landlord score with every bound exclusive.
LandlordScore_strict(l) ==
    IF ~TruthyBool(l.is_landlord) THEN 0
    ELSE IF ~TruthyInt(l.property_count) THEN 60
    ELSE IF l.property_count[1] > 10 THEN 100
    ELSE IF l.property_count[1] > 6 THEN 85
    ELSE IF l.property_count[1] > 3 THEN 75
    ELSE 60

\* Landlord score, lines 306-316.
LandlordScore(l) ==
    IF ~TruthyBool(l.is_landlord) THEN 0
    ELSE IF ~TruthyInt(l.property_count) THEN 60
    ELSE IF l.property_count[1] >= 10 THEN 100
    ELSE IF l.property_count[1] >= 6 THEN 85
    ELSE IF l.property_count[1] >= 3 THEN 75
    ELSE 60

\* total_weighted, lines 319-324, times 100 and exact.  The code sums
\* doubles; for sub-scores that are multiples of 5, as all the scores the
\* code produces are, the double sum lies on the same side of 60, 75 and 90
\* as the exact one.
TotalWeighted(property_score, financial_score, behavioral_score, landlord_score) ==
    property_score * 40 + financial_score * 35 + behavioral_score * 25
        + (IF landlord_score >= 75 THEN 1500 ELSE 0)

\* The tier with every threshold exclusive.
Tier_strict(total_weighted) ==
    IF total_weighted > 9000 THEN "HOT"
    ELSE IF total_weighted > 7500 THEN "QUALIFIED"
    ELSE IF total_weighted > 6000 THEN "NURTURE"
    ELSE "REJECT"

\* The tier of a weighted total (times 100), lines 326-333.
Tier(total_weighted) ==
    IF total_weighted >= 9000 THEN "HOT"
    ELSE IF total_weighted >= 7500 THEN "QUALIFIED"
    ELSE IF total_weighted >= 6000 THEN "NURTURE"
    ELSE "REJECT"

\* The graduated result, lines 226-344.
Graduated(l, shading_code, tub, cb, style, mot) ==
    LET property_score   == PropertyScore(l, shading_code)
        financial_score  == FinancialScore(l, tub, cb)
        beh              == Behavioral(style)
        landlord_score   == LandlordScore(l)
    IN  [ property_score   |-> property_score,
          financial_score  |-> financial_score,
          behavioral_score |-> beh.score,
          landlord_score   |-> landlord_score,
          ai_tier          |-> Tier(TotalWeighted(property_score,
                                   financial_score, beh.score, landlord_score)),
          buyer_type       |-> beh.buyer_type,
          pain_points      |-> PainPoints(mot),
          reject_reasons   |-> <<>> ]

\* apply_scoring without the early return of line 214: the graduated scores
\* are computed and returned beside the reject reasons.
apply_scoring_fallthrough(l0) ==
    LET nb           == normalize_monthly_bill(l0)
        l            == [l0 EXCEPT !.monthly_bill = nb.bill]
        shading_code == map_shading_to_code(l.shading_level)
        hoa_ok       == map_hoa_to_bool(l.hoa_allows_solar)
        cb           == map_credit_band(l.credit_band)
        tubo         == map_true_up_band(l.true_up_band)
        styleo       == normalize_decision_style(l.decision_style)
        moto         == normalize_motivation(l.motivation)
    IN  [lead   |-> l,
         result |-> Some([Graduated(l, shading_code, Lower(tubo[1]), cb[1],
                              Lower(styleo[1]), Lower(moto[1]))
                          EXCEPT !.reject_reasons =
                              RejectReasons(l, shading_code, hoa_ok, cb[1])]),
         exc    |-> "none"]

\* apply_scoring(lead): the record after the call (normalize_monthly_bill
\* assigns lead.monthly_bill), the LeadScore returned (None when an exception
\* escaped) and that exception.  x.lower() on None is an AttributeError.
apply_scoring(l0) ==
    LET nb           == normalize_monthly_bill(l0)
        l            == [l0 EXCEPT !.monthly_bill = nb.bill]
        shading_code == map_shading_to_code(l.shading_level)
        hoa_ok       == map_hoa_to_bool(l.hoa_allows_solar)
        cb           == map_credit_band(l.credit_band)
        tubo         == map_true_up_band(l.true_up_band)
        styleo       == normalize_decision_style(l.decision_style)
        moto         == normalize_motivation(l.motivation)
    IN  IF nb.exc # "none"
        THEN [lead |-> l0, result |-> None, exc |-> nb.exc]
        ELSE IF cb = None \/ tubo = None
        THEN [lead |-> l, result |-> None, exc |-> "AttributeError"]
        ELSE LET reject_reasons == RejectReasons(l, shading_code, hoa_ok, cb[1])
             IN  IF reject_reasons # <<>>
                 THEN [lead |-> l, result |-> Some(HardReject(reject_reasons)),
                       exc |-> "none"]
                 ELSE IF styleo = None \/ moto = None
                 THEN [lead |-> l, result |-> None, exc |-> "AttributeError"]
                 ELSE [lead |-> l,
                       result |-> Some(Graduated(l, shading_code,
                                     Lower(tubo[1]), cb[1],
                                     Lower(styleo[1]), Lower(moto[1]))),
                       exc |-> "none"]

\* ---------------------------------------------------------- lead records

\* LeadInput() with every field left out: the defaults of lines 11-47.  The
\* identity and address fields are never read or written by the engine; name
\* stands for them.
BaseLead ==
    [ name             |-> None,
      is_landlord      |-> Some(FALSE),
      property_count   |-> Some(0),
      roof_type        |-> None,
      roof_age_years   |-> None,
      shading_level    |-> None,
      hoa_allows_solar |-> None,
      distance_minutes |-> None,
      monthly_bill_raw |-> None,
      monthly_bill     |-> None,
      true_up_band     |-> None,
      credit_band      |-> None,
      motivation       |-> None,
      decision_style   |-> None ]

\* x-Spread .. x+Spread
Near(x) == (x - Spread)..(x + Spread)

\* The characters of monthly_bill_raw.
RawChars == {"$", " ", "ndash", "-", "1", "4", "a"}

\* The lexemes of each free-text field.
RoofLexemes ==
    {"Wood", "shake", "Asphalt", "composition", "Tile", "metal", "flat", "slate"}

ShadingLexemes == {"Full", "Mostly", "partial", "Heavy", "cloudy"}

HoaLexemes == {"No", " ", "HOA", "Allow", "Restriction", "unsure"}

CreditLexemes == {"Under", " ", "650", "ndash", "-", "719", "720", "+"}

TrueUpLexemes == {"Under", " ", "500", "+", "$"}

StyleLexemes ==
    {"Research", "quality", "Trust", "expert", "Price", "deal", "fast"}

MotivationLexemes ==
    {"Saving", "environment", "independence", "Backup", "quality", "other"}

\* Records in which one free-text field is any string of at most MaxWords
\* lexemes and every other field has its default.
TextLeads ==
    { [BaseLead EXCEPT !.roof_type = Some(s)] :
          s \in SeqsUpTo(RoofLexemes, MaxWords) }
    \cup { [BaseLead EXCEPT !.shading_level = Some(s)] :
          s \in SeqsUpTo(ShadingLexemes, MaxWords) }
    \cup { [BaseLead EXCEPT !.hoa_allows_solar = Some(s)] :
          s \in SeqsUpTo(HoaLexemes, MaxWords) }
    \cup { [BaseLead EXCEPT !.credit_band = Some(s)] :
          s \in SeqsUpTo(CreditLexemes, MaxWords) }
    \cup { [BaseLead EXCEPT !.true_up_band = Some(s)] :
          s \in SeqsUpTo(TrueUpLexemes, MaxWords) }
    \cup { [BaseLead EXCEPT !.decision_style = Some(s)] :
          s \in SeqsUpTo(StyleLexemes, MaxWords) }
    \cup { [BaseLead EXCEPT !.motivation = Some(s)] :
          s \in SeqsUpTo(MotivationLexemes, MaxWords) }

\* Records in which one numeric field (or the landlord pair) runs over the
\* values around the thresholds of the rules.
NumLeads ==
    { [BaseLead EXCEPT !.distance_minutes = Some(d)] : d \in Near(90) }
    \cup { [BaseLead EXCEPT !.roof_age_years = Some(a)] :
          a \in (0 - Spread)..(15 + Spread) }
    \cup { [BaseLead EXCEPT !.monthly_bill = Some(b)] :
          b \in Near(0) \cup Near(Dollars(150)) \cup Near(Dollars(200))
                  \cup Near(Dollars(400)) }
    \cup { [BaseLead EXCEPT !.is_landlord = il, !.property_count = pc] :
          il \in {None, Some(FALSE), Some(TRUE)},
          pc \in {None} \cup { Some(n) : n \in (0 - Spread)..(10 + Spread) } }

\* Records over the fields of the seven hard rules, each rule firing or not
\* independently of the others, with the scoring fields varying beside them.
HardLeads ==
    { [BaseLead EXCEPT !.distance_minutes = d, !.roof_type = rt,
                       !.shading_level = sh, !.monthly_bill = mb,
                       !.hoa_allows_solar = hoa, !.roof_age_years = age,
                       !.credit_band = cb, !.is_landlord = il,
                       !.property_count = Some(10), !.decision_style = ds] :
          d   \in {None, Some(90), Some(91)},
          rt  \in {None, Some(<<"Wood", " ", "shake">>), Some(<<"Asphalt">>)},
          sh  \in {None, Some(<<"Heavy">>), Some(<<"Full">>)},
          mb  \in {None, Some(Dollars(150) - 1), Some(Dollars(150))},
          hoa \in {None, Some(<<"Restriction">>), Some(<<"Allow">>)},
          age \in {None, Some(14), Some(15)},
          cb  \in {None, Some(<<"Under", " ", "650">>), Some(<<"720", "+">>)},
          il  \in {Some(FALSE), Some(TRUE)},
          ds  \in {None, Some(<<"Research">>)} }

\* Records over the fields of the graduated scores, so that the sub-scores
\* and the weighted total take all their combinations.
TierLeads ==
    { [BaseLead EXCEPT !.roof_type = rt, !.roof_age_years = age,
                       !.shading_level = sh, !.monthly_bill = mb,
                       !.true_up_band = tub, !.credit_band = cb,
                       !.decision_style = ds, !.is_landlord = Some(ll[1]),
                       !.property_count = Some(ll[2])] :
          rt  \in {None, Some(<<"Asphalt">>), Some(<<"Tile">>)},
          age \in {None, Some(5), Some(10)},
          sh  \in {None, Some(<<"Full">>), Some(<<"Mostly">>)},
          mb  \in {None, Some(Dollars(150)), Some(Dollars(200)),
                   Some(Dollars(400))},
          tub \in {None, Some(<<"500", "+">>), Some(<<"Under", " ", "500">>)},
          cb  \in {None, Some(<<"720", "+">>), Some(<<"650", "ndash", "719">>)},
          ds  \in {None, Some(<<"Research">>), Some(<<"Trust", "expert">>),
                   Some(<<"Price">>), Some(<<"deal">>)},
          ll  \in {<<FALSE, 10>>, <<TRUE, 2>>, <<TRUE, 3>>} }

\* Records that carry a raw bill string: any string of at most MaxRawLen
\* characters without a numeric bill, and the shorter ones also beside a
\* numeric bill.
BillLeads ==
    { [BaseLead EXCEPT !.monthly_bill_raw = raw] :
          raw \in {None} \cup { Some(s) : s \in SeqsUpTo(RawChars, MaxRawLen) } }
    \cup { [BaseLead EXCEPT !.monthly_bill_raw = Some(s),
                            !.monthly_bill = Some(Dollars(250))] :
          s \in SeqsUpTo(RawChars, MaxRawLen - 2) }

\* Records in which every free-text field is absent, empty or present, and
\* the numeric fields are all absent or all present.
PresenceLeads ==
    { [ name             |-> nm,
        is_landlord      |-> num[1],
        property_count   |-> num[2],
        roof_type        |-> rt,
        roof_age_years   |-> num[3],
        shading_level    |-> sh,
        hoa_allows_solar |-> hoa,
        distance_minutes |-> num[4],
        monthly_bill_raw |-> raw,
        monthly_bill     |-> num[5],
        true_up_band     |-> tub,
        credit_band      |-> cb,
        motivation       |-> mot,
        decision_style   |-> ds ] :
          nm  \in {None},
          num \in { <<None, None, None, None, None>>,
                    <<Some(TRUE), Some(3), Some(5), Some(90),
                      Some(Dollars(400))>> },
          rt  \in {None, Some(<<>>), Some(<<"Asphalt">>)},
          sh  \in {None, Some(<<>>), Some(<<"Full">>)},
          hoa \in {None, Some(<<>>), Some(<<"Allow">>)},
          raw \in {None, Some(<<>>), Some(<<"4", "1", "4">>)},
          tub \in {None, Some(<<>>), Some(<<"500", "+">>)},
          cb  \in {None, Some(<<>>), Some(<<"720">>)},
          mot \in {None, Some(<<>>), Some(<<"Saving">>)},
          ds  \in {None, Some(<<>>), Some(<<"Research">>)} }

\* -------------------------------------------------------- state machine

\* The state after a record of the set Leads has been constructed: no call
\* yet.  input keeps the record as constructed; prev is the result of the
\* call before the last one.
InitWith(Leads) ==
    /\ lead \in Leads
    /\ input = lead
    /\ result = None
    /\ prev = None
    /\ calls = 0
    /\ raised = "none"

\* One call apply_scoring(lead) on the record object.
ApplyScoring ==
    /\ calls < MaxCalls
    /\ LET out == apply_scoring(lead)
       IN  /\ lead' = out.lead
           /\ result' = out.result
           /\ raised' = out.exc
    /\ prev' = result
    /\ calls' = calls + 1
    /\ UNCHANGED input

Next == ApplyScoring

InitHard == InitWith(HardLeads \cup NumLeads \cup TextLeads)

InitGrad == InitWith(TierLeads \cup NumLeads \cup TextLeads)

InitBill == InitWith(BillLeads \cup PresenceLeads)

\* Leads of the hard-rule fields.
SpecHard == InitHard /\ [][Next]_vars

\* Leads of the graduated-score fields.
SpecGrad == InitGrad /\ [][Next]_vars

\* Leads of the bill fields and of field presence.
SpecBill == InitBill /\ [][Next]_vars

\* ------------------------------------------------------------ properties

\* The elements of a list.
Range(seq) == { seq[i] : i \in 1..Len(seq) }

\* A call has returned a LeadScore.
Returned == calls >= 1 /\ result # None

\* The call returned a LeadScore with no reject reason.
Scored == Returned /\ result[1].reject_reasons = <<>>

\* The call returned a LeadScore with a reject reason.
HardRejected == Returned /\ result[1].reject_reasons # <<>>

\* C1: a result with a non-empty reject_reasons has tier REJECT and the
\* placeholder sub-scores property 20, financial 20, behavioral 40 and
\* landlord 0, whatever the other fields of the lead are.
HardRejectIsPlaceholder ==
    HardRejected =>
        /\ result[1].ai_tier = "REJECT"
        /\ result[1].property_score = 20
        /\ result[1].financial_score = 20
        /\ result[1].behavioral_score = 40
        /\ result[1].landlord_score = 0

\* C1 witness: a hard-rejected landlord with an asphalt roof, a research
\* decision style and a bill of 150, whose graduated scores would differ.
HardRejectedStrongLead ==
    /\ HardRejected
    /\ input.is_landlord = Some(TRUE)
    /\ input.roof_type = Some(<<"Asphalt">>)
    /\ input.decision_style = Some(<<"Research">>)
    /\ input.monthly_bill = Some(Dollars(150))
    /\ result[1].landlord_score = 0

\* The seven hard rules as the specification states them, on the record
\* after normalization.
RuleHolds ==
    [ distance |-> /\ lead.distance_minutes # None
                   /\ lead.distance_minutes[1] > 90,
      roof     |-> /\ TruthyStr(lead.roof_type)
                   /\ "wood"  \in Range(Lower(lead.roof_type[1]))
                   /\ "shake" \in Range(Lower(lead.roof_type[1])),
      shading  |-> map_shading_to_code(lead.shading_level) = Some("heavy_shade"),
      bill     |-> /\ lead.monthly_bill # None
                   /\ lead.monthly_bill[1] < Dollars(150),
      hoa      |-> map_hoa_to_bool(lead.hoa_allows_solar) = Some(FALSE),
      age      |-> /\ lead.roof_age_years # None
                   /\ lead.roof_age_years[1] >= 15,
      credit   |-> /\ TruthyStr(lead.credit_band)
                   /\ StartsWith(Lower(lead.credit_band[1]),
                                 <<"under", " ", "650">>) ]

RuleReason ==
    [ distance |-> "Outside 90-minute radius",
      roof     |-> "Wood shake roof",
      shading  |-> "Excessive shading",
      bill     |-> "Monthly bill under $150",
      hoa      |-> "HOA does not allow solar",
      age      |-> "Roof likely needs replacement within 5 years",
      credit   |-> "Credit score below 650" ]

\* C2: reject_reasons is exactly the set of the hard rules whose predicate
\* holds on the normalized lead, each reported once; distance 90, roof age 14
\* and an absent field report nothing, distance 91, roof age 15 and a bill of
\* 0 report their reason.
RejectReasonsAreTheRulesThatHold ==
    Returned =>
        LET rr == result[1].reject_reasons
        IN  /\ \A r \in DOMAIN RuleReason :
                   (RuleReason[r] \in Range(rr)) <=> RuleHolds[r]
            /\ Range(rr) \subseteq { RuleReason[r] : r \in DOMAIN RuleReason }
            /\ Cardinality(Range(rr)) = Len(rr)
            /\ input.distance_minutes \in {None, Some(90)}
                   => RuleReason.distance \notin Range(rr)
            /\ input.distance_minutes = Some(91)
                   => RuleReason.distance \in Range(rr)
            /\ input.roof_age_years \in {None, Some(14)}
                   => RuleReason.age \notin Range(rr)
            /\ input.roof_age_years = Some(15) => RuleReason.age \in Range(rr)
            /\ input.monthly_bill = Some(0) => RuleReason.bill \in Range(rr)
            /\ lead.monthly_bill = None => RuleReason.bill \notin Range(rr)

\* C2 witness: the distance rule fires at 91 beside a roof age of 14, a bill
\* of 150 and no other rule: one reason is reported.
OnlyDistanceRejects ==
    /\ Returned
    /\ input.distance_minutes = Some(91)
    /\ input.roof_age_years = Some(14)
    /\ input.monthly_bill = Some(Dollars(150))
    /\ result[1].reject_reasons = <<"Outside 90-minute radius">>

\* C3: every sub-score of a result is an integer in 0..100 and the tier is
\* one of the four; the property sum 50+25+20+15 and the financial sum
\* 40+30+20+20 are reported as 100.
ScoresInRange ==
    Returned =>
        /\ result[1].property_score \in 0..100
        /\ result[1].financial_score \in 0..100
        /\ result[1].behavioral_score \in 0..100
        /\ result[1].landlord_score \in 0..100
        /\ result[1].ai_tier \in {"HOT", "QUALIFIED", "NURTURE", "REJECT"}
        /\ ( /\ Scored
             /\ input.roof_type = Some(<<"Asphalt">>)
             /\ input.roof_age_years = Some(5)
             /\ input.shading_level = Some(<<"Full">>) )
               => result[1].property_score = 100
        /\ ( /\ Scored
             /\ input.monthly_bill = Some(Dollars(400))
             /\ input.true_up_band = Some(<<"500", "+">>)
             /\ input.credit_band = Some(<<"720", "+">>) )
               => result[1].financial_score = 100

\* C3 witness: a lead whose property and financial sums are both 110.
BothSumsExceed100 ==
    /\ Scored
    /\ input.roof_type = Some(<<"Asphalt">>)
    /\ input.roof_age_years = Some(5)
    /\ input.shading_level = Some(<<"Full">>)
    /\ input.monthly_bill = Some(Dollars(400))
    /\ input.true_up_band = Some(<<"500", "+">>)
    /\ input.credit_band = Some(<<"720", "+">>)
    /\ result[1].property_score = 100
    /\ result[1].financial_score = 100

\* 100 times the weighted sum of the sub-scores of the result, with the
\* landlord bonus.
ResultWeighted ==
    40 * result[1].property_score + 35 * result[1].financial_score
        + 25 * result[1].behavioral_score
        + (IF result[1].landlord_score >= 75 THEN 1500 ELSE 0)

\* C4: with no reject reason the tier is HOT iff W >= 90, QUALIFIED iff
\* 75 <= W < 90, NURTURE iff 60 <= W < 75 and REJECT iff W < 60, W being the
\* weighted sum of the reported sub-scores; 80/80/80 without bonus is
\* QUALIFIED; a REJECT reached this way has graduated sub-scores (at least the
\* bases 50 and 40), not the placeholders.
TierIsThresholdOfWeightedSum ==
    /\ Tier(TotalWeighted(80, 80, 80, 0)) = "QUALIFIED"
    /\ Scored =>
        /\ result[1].ai_tier = "HOT" <=> ResultWeighted >= 9000
        /\ result[1].ai_tier = "QUALIFIED" <=>
               (ResultWeighted >= 7500 /\ ResultWeighted < 9000)
        /\ result[1].ai_tier = "NURTURE" <=>
               (ResultWeighted >= 6000 /\ ResultWeighted < 7500)
        /\ result[1].ai_tier = "REJECT" <=> ResultWeighted < 6000
        /\ result[1].ai_tier = "REJECT" =>
               /\ result[1].property_score >= 50
               /\ result[1].financial_score >= 40

\* C4 witness: a weighted sum of exactly 75 reached with the landlord bonus
\* is QUALIFIED.
QualifiedAtExactly75 ==
    /\ Scored
    /\ result[1].landlord_score >= 75
    /\ ResultWeighted = 7500
    /\ result[1].ai_tier = "QUALIFIED"

\* The landlord score as the specification states it.
ExpectedLandlord ==
    IF input.is_landlord # Some(TRUE) THEN 0
    ELSE IF input.property_count = None THEN 60
    ELSE IF input.property_count[1] >= 10 THEN 100
    ELSE IF input.property_count[1] \in 6..9 THEN 85
    ELSE IF input.property_count[1] \in 3..5 THEN 75
    ELSE 60

\* The tier of a weighted sum (times 100) as the specification states it.
ExpectedTier(w) ==
    CASE w >= 9000 -> "HOT"
      [] w >= 7500 /\ w < 9000 -> "QUALIFIED"
      [] w >= 6000 /\ w < 7500 -> "NURTURE"
      [] w < 6000 -> "REJECT"

\* C9: with no reject reason landlord_score is 0 unless is_landlord is true,
\* and then 100, 85, 75 for a property count >= 10, 6..9, 3..5 and 60
\* otherwise; the 15-point bonus enters the tier exactly for landlords with a
\* property count >= 3.
LandlordScoreByPropertyCount ==
    Scored =>
        /\ result[1].landlord_score = ExpectedLandlord
        /\ result[1].ai_tier =
               ExpectedTier(40 * result[1].property_score
                            + 35 * result[1].financial_score
                            + 25 * result[1].behavioral_score
                            + (IF /\ input.is_landlord = Some(TRUE)
                                  /\ input.property_count # None
                                  /\ input.property_count[1] >= 3
                               THEN 1500 ELSE 0))

\* C9 witness: a landlord with exactly 3 properties scores 75.
LandlordWithThree ==
    /\ Scored
    /\ input.is_landlord = Some(TRUE)
    /\ input.property_count = Some(3)
    /\ result[1].landlord_score = 75

\* The lower-cased lexemes of an optional text, none when it is absent.
Words(o) == IF o = None THEN {} ELSE Range(Lower(o[1]))

\* The lower-cased text of an optional field, empty when it is absent.
LowerText(o) == IF o = None THEN <<>> ELSE Lower(o[1])

\* The rule tables of the specification, read on the record after the call.
ExpectedProperty ==
    LET material ==
            IF Words(lead.roof_type) \cap {"asphalt", "composition"} # {}
            THEN 25
            ELSE IF Words(lead.roof_type) \cap {"tile", "metal", "flat"} # {}
                 THEN 15 ELSE 0
        age ==
            CASE lead.roof_age_years = None -> 0
              [] lead.roof_age_years # None /\ lead.roof_age_years[1] <= 5 -> 20
              [] lead.roof_age_years # None /\ lead.roof_age_years[1] \in 6..10
                     -> 10
              [] lead.roof_age_years # None /\ lead.roof_age_years[1] \in 11..14
                     -> 0
        code == map_shading_to_code(lead.shading_level)
        shading ==
            IF code = Some("full_sun") THEN 15
            ELSE IF code = Some("mostly_sunny") THEN 10 ELSE 0
        sum == 50 + material + age + shading
    IN  IF sum > 100 THEN 100 ELSE sum

ExpectedFinancial ==
    LET bill ==
            CASE lead.monthly_bill = None -> 0
              [] /\ lead.monthly_bill # None
                 /\ lead.monthly_bill[1] >= Dollars(400) -> 30
              [] /\ lead.monthly_bill # None
                 /\ lead.monthly_bill[1] >= Dollars(200)
                 /\ lead.monthly_bill[1] < Dollars(400) -> 20
              [] /\ lead.monthly_bill # None
                 /\ lead.monthly_bill[1] >= Dollars(150)
                 /\ lead.monthly_bill[1] < Dollars(200) -> 10
        tub == LowerText(lead.true_up_band)
        trueup ==
            IF Contains(tub, <<"500", "+">>) THEN 20
            ELSE IF Contains(tub, <<"under", " ", "500">>) THEN 10 ELSE 0
        cb == LowerText(lead.credit_band)
        credit ==
            IF StartsWith(cb, <<"720">>) THEN 20
            ELSE IF \E dash \in {"ndash", "-"} : Contains(cb, <<"650", dash, "719">>)
                 THEN 10 ELSE 0
        sum == 40 + bill + trueup + credit
    IN  IF sum > 100 THEN 100 ELSE sum

ExpectedBehavioral ==
    LET w == Words(lead.decision_style)
    IN  IF w \cap {"research", "quality"} # {}
        THEN [score |-> 75, buyer_type |-> "Quality Focused"]
        ELSE IF {"trust", "expert"} \subseteq w
        THEN [score |-> 70, buyer_type |-> "Trusts Experts"]
        ELSE IF "price" \in w
        THEN [score |-> 40, buyer_type |-> "Price Shopper"]
        ELSE IF "deal" \in w
        THEN [score |-> 45, buyer_type |-> "Discount Seeker"]
        ELSE [score |-> 50, buyer_type |-> "Unknown"]

\* The lead with every field absent.
AllAbsent == [f \in DOMAIN BaseLead |-> None]

\* C10: with no reject reason the property, financial and behavioral
\* sub-scores and the buyer type are those of the rule tables of the
\* specification, an absent text scoring nothing; the lead with every field
\* absent scores (50, 40, 50, 0), Unknown, no pain points, tier REJECT.
GraduatedScoresMatchTables ==
    Scored =>
        /\ result[1].property_score = ExpectedProperty
        /\ result[1].financial_score = ExpectedFinancial
        /\ result[1].behavioral_score = ExpectedBehavioral.score
        /\ result[1].buyer_type = ExpectedBehavioral.buyer_type
        /\ input \in {AllAbsent, BaseLead} =>
               result[1] = [ property_score   |-> 50,
                             financial_score  |-> 40,
                             behavioral_score |-> 50,
                             landlord_score   |-> 0,
                             ai_tier          |-> "REJECT",
                             buyer_type       |-> "Unknown",
                             pain_points      |-> <<>>,
                             reject_reasons   |-> <<>> ]

\* C10 witness: a roof of exactly 5 years under a tile roof in mostly sunny
\* shading, a bill of 200, an en-dash credit band and a trust-the-expert
\* style score 95, 70 and 70.
GraduatedAtBoundaries ==
    /\ Scored
    /\ input.roof_type = Some(<<"Tile">>)
    /\ input.roof_age_years = Some(5)
    /\ input.shading_level = Some(<<"Mostly">>)
    /\ input.monthly_bill = Some(Dollars(200))
    /\ input.credit_band = Some(<<"650", "ndash", "719">>)
    /\ input.true_up_band = None
    /\ input.decision_style = Some(<<"Trust", "expert">>)
    /\ result[1].property_score = 95
    /\ result[1].financial_score = 70
    /\ result[1].behavioral_score = 70
    /\ result[1].buyer_type = "Trusts Experts"

\* Raw bill strings that do not parse: letters, a lone dash, a range with a
\* missing part, a doubled sign, only symbols.
UnparseableRaw ==
    { <<"a">>, <<"a", "a", "a">>, <<"-">>, <<"ndash">>, <<"4", "-">>,
      <<"4", "1", "-">>, <<"-", "-", "4">>, <<"$">>, <<" ">>, <<"$", "a">>,
      <<"1", "-", "a">>, <<"a", "-", "1">> }

\* C5: no call raises and every call returns a LeadScore, whatever fields are
\* present, absent or empty; an unparseable monthly_bill_raw leaves the bill
\* unset, and then the bill neither rejects nor adds financial points.
ScoringIsTotal ==
    /\ raised = "none"
    /\ calls >= 1 => result # None
    /\ ( /\ calls >= 1
         /\ input.monthly_bill = None
         /\ input.monthly_bill_raw # None
         /\ input.monthly_bill_raw[1] \in UnparseableRaw )
           => /\ lead.monthly_bill = None
              /\ "Monthly bill under $150" \notin Range(result[1].reject_reasons)
              /\ ( input.true_up_band = None /\ input.credit_band = None
                   /\ result[1].reject_reasons = <<>> )
                     => result[1].financial_score = 40

\* C5 witness: the raw string "41-" was scored: no bill, no rejection, the
\* base financial score.
UnparseableRangeScored ==
    /\ calls >= 1
    /\ raised = "none"
    /\ input.monthly_bill_raw = Some(<<"4", "1", "-">>)
    /\ lead.monthly_bill = None
    /\ result # None
    /\ result[1].reject_reasons = <<>>
    /\ result[1].financial_score = 40

\* C6 as stated: after a call every field of the record, the numeric bill
\* included, has the value it had before.
CallLeavesRecordUnchanged == calls >= 1 => lead = input

\* C6 amended: a call changes no field other than monthly_bill; monthly_bill
\* keeps its value when it was present or when the raw string is absent or
\* empty, and otherwise changes only from absent to the estimate parsed from
\* monthly_bill_raw, which stays stored in the record.
CallChangesOnlyAbsentBill ==
    calls >= 1 =>
        /\ [lead EXCEPT !.monthly_bill = input.monthly_bill] = input
        /\ input.monthly_bill # None => lead.monthly_bill = input.monthly_bill
        /\ ~TruthyStr(input.monthly_bill_raw)
               => lead.monthly_bill = input.monthly_bill
        /\ lead.monthly_bill # input.monthly_bill
               => /\ input.monthly_bill = None
                  /\ lead.monthly_bill
                         = normalize_monthly_bill(
                               [BaseLead EXCEPT !.monthly_bill_raw =
                                                    input.monthly_bill_raw]).bill

\* C6 witness: after scoring a record that had only the raw string "1-4",
\* the record holds the bill 2.5.
DerivedBillStored ==
    /\ calls >= 1
    /\ input.monthly_bill = None
    /\ input.monthly_bill_raw = Some(<<"1", "-", "4">>)
    /\ lead.monthly_bill = Some(5)

\* C7: the second of two successive calls on one record returns the LeadScore
\* the first returned, for records with a numeric bill and for records that
\* carry only monthly_bill_raw.
RepeatedCallSameResult == calls >= 2 => (result = prev /\ result # None)

\* C7 witness: a record that carried only a raw string was scored twice, the
\* second call reading the bill the first one derived.
RawOnlyScoredTwice ==
    /\ calls >= 2
    /\ input.monthly_bill = None
    /\ input.monthly_bill_raw = Some(<<"4", "1", "4">>)
    /\ lead.monthly_bill = Some(Dollars(414))
    /\ result = prev
    /\ result[1].financial_score = 70

\* The raw string with "$" and spaces removed and the en dash made a hyphen.
Cleaned(raw) ==
    LET kept == SelectSeq(raw, LAMBDA c : c \notin {"$", " "})
    IN  [i \in 1..Len(kept) |-> IF kept[i] = "ndash" THEN "-" ELSE kept[i]]

\* The bill the specification prescribes for the record as constructed.
ExpectedBill ==
    IF input.monthly_bill # None THEN input.monthly_bill
    ELSE IF input.monthly_bill_raw \in {None, Some(<<>>)} THEN None
    ELSE LET c     == Cleaned(input.monthly_bill_raw[1])
             parts == Split(c, "-")
         IN  IF /\ "-" \in Range(c)
                /\ ParseFloat(parts[1]) # None
                /\ ParseFloat(parts[2]) # None
             THEN Some((ParseFloat(parts[1])[1] + ParseFloat(parts[2])[1]) \div 2)
             ELSE ParseFloat(c)

\* C8: a numeric bill is kept whatever the raw string says; otherwise a
\* cleaned string with a hyphen whose first two parts parse gives their mean,
\* any other string is parsed as one number, and the bill stays unset when
\* that fails or the raw string is empty or absent.  "$1-$4" with an en dash
\* gives 2.5, "14" gives 14, "a" and "" give no bill.
BillNormalization ==
    calls >= 1 =>
        /\ lead.monthly_bill = ExpectedBill
        /\ ( input.monthly_bill = None /\ input.monthly_bill_raw # None ) =>
            /\ input.monthly_bill_raw[1] = <<"$", "1", "ndash", "$", "4">>
                   => lead.monthly_bill = Some(5)
            /\ input.monthly_bill_raw[1] = <<"1", "4">>
                   => lead.monthly_bill = Some(Dollars(14))
            /\ input.monthly_bill_raw[1] \in {<<>>, <<"a">>, <<"1", "-">>}
                   => lead.monthly_bill = None
        /\ ( input.monthly_bill = Some(Dollars(250))
             /\ input.monthly_bill_raw = Some(<<"1", "4">>) )
               => lead.monthly_bill = Some(Dollars(250))

\* C8 witness: "$1-$4" written with an en dash was normalized to 2.5.
RangeWithEnDashAveraged ==
    /\ calls >= 1
    /\ input.monthly_bill = None
    /\ input.monthly_bill_raw = Some(<<"$", "1", "ndash", "$", "4">>)
    /\ lead.monthly_bill = Some(5)

====
